---- MODULE Spec2Model ----
(***************************************************************************)
(* A model of src/main.py (Uzo01/stock-tracker):                          *)
(*   - fetch_stock_data   (lines 130-155): the retrying multi-symbol fetch *)
(*   - backtest_investment (lines 84-128): the monthly investment backtest *)
(* Each function is a state machine of its own (SpecFetch, SpecBacktest); *)
(* the variables of the other one keep their initial values.              *)
(***************************************************************************)
EXTENDS Integers, Sequences, FiniteSets

VARIABLES
    \* ---- fetch_stock_data ----
    tickers,      \* the argument: a list of symbols (duplicates allowed)
    f_pc,         \* "running" | "returned" | "raised"
    ticker_i,     \* position of the outer loop in tickers (1-based)
    attempt,      \* the inner loop variable, range(3)
    data_dict,    \* the result mapping symbol -> data
    f_exc,        \* the exception that left the call, "none" if none
    trace,        \* what the call did: provider calls, sleeps, printed lines
    \* ---- backtest_investment ----
    variable_amounts,  \* the argument: the list of monthly amounts
    now,               \* datetime.now() read at line 90
    b_pc,              \* "entry" | "downloaded" | "loop" | "returned" | "raised"
    sp500,             \* the downloaded reference series
    months,
    investment_dates,
    period_i,          \* position of the for loop of line 106 (1-based)
    portfolio,         \* the list of ledger rows
    total_invested,
    total_shares,
    b_exc,             \* the exception that left the call, "none" if none
    requests,          \* number of requests made to the market-data provider
    warnings,          \* target dates of the printed "skipping month" warnings
    \* ---- check_price_alerts ----
    latest,            \* data_dict in iteration order: symbol and latest close
    target_prices,     \* the argument: symbol -> target price
    a_pc,              \* "running" | "returned"
    alert_i,           \* position of the for loop of line 181 (1-based)
    alerts,            \* the list of alert messages
    \* ---- StockTrackerApp ----
    g_pc,              \* "mainloop" while the window is open
    tree,              \* the Amount column of the 12 rows, as texts
    backtest_df,       \* the attribute self.backtest_df, NoAttribute before it exists
    dialog,            \* the message box shown by the last handler
    last_event,        \* the last handler that ran and how it ended
    completed_run      \* TRUE once a run_backtest call has reached line 54

fvars == <<tickers, f_pc, ticker_i, attempt, data_dict, f_exc, trace>>
bvars == <<variable_amounts, now, b_pc, sp500, months, investment_dates,
           period_i, portfolio, total_invested, total_shares, b_exc,
           requests, warnings>>
avars == <<latest, target_prices, a_pc, alert_i, alerts>>
gvars == <<g_pc, tree, backtest_df, dialog, last_event, completed_run>>
vars == <<fvars, bvars, avars, gvars>>

(***************************************************************************)
(* Bounds of the model.                                                    *)
(***************************************************************************)
MaxTickers == 2
MaxPlan == 3
MaxSeries == 3
\* The calendar is scaled: a month has MonthLen days, and the 365 days of
\* line 91 are YearLen days.
MonthLen == 2
YearLen == 4

Symbols == {"AAPL", "JPM"}
\* Non-empty data frames the provider may return.
Frames == {"df1", "df2"}
\* Exceptions the provider may raise: its own YFException, or any other.
ProviderExceptions == {"YFException", "ConnectionError"}

RECURSIVE SeqsUpTo(_, _)
\* All sequences over S of length 0..n.
SeqsUpTo(S, n) ==
    IF n = 0 THEN {<<>>}
    ELSE LET shorter == SeqsUpTo(S, n - 1)
         IN  shorter \cup {Append(q, x) : q \in shorter, x \in S}

RECURSIVE Pow2(_)
\* 2 ** n
Pow2(n) == IF n = 0 THEN 1 ELSE 2 * Pow2(n - 1)

(***************************************************************************)
(* fetch_stock_data                                                        *)
(***************************************************************************)

\* The names bound at module level: the imports of lines 1-7 and the
\* definitions of the file.  "import yfinance as yf" binds yf only, and no
\* line imports time.
GlobalNames ==
    {"tk", "ttk", "messagebox", "pd", "yf", "datetime", "timedelta", "plt",
     "StockTrackerApp", "backtest_investment", "fetch_stock_data",
     "plot_stock_data", "check_price_alerts", "save_to_file"}

\* range(3) of line 140
MaxAttempts == 3

EmptyDict == [s \in {} |-> "df1"]

Event(ev, pos, att, res, delay) ==
    [ev |-> ev, pos |-> pos, att |-> att, res |-> res, delay |-> delay]

\* data_dict[ticker] = data (line 145)
StoreData(d, ticker, data) ==
    [s \in (DOMAIN d) \cup {ticker} |-> IF s = ticker THEN data ELSE d[s]]

\* Whether the for loop of line 140 runs its else clause (line 153) after
\* the iteration numbered att: only when the range is exhausted, which a
\* break prevents.
LoopExhausted(att, broke) == ~broke /\ att = MaxAttempts - 1

\* The loop control with a sleep after every iteration that did not break,
\* the last one included.
AfterIteration_SleepAlways(events, broke) ==
    LET done == broke \/ LoopExhausted(attempt, broke)
        slept ==
            IF broke THEN events
            ELSE events \o <<Event("sleep", ticker_i, attempt, "", Pow2(attempt))>>
        printed ==
            IF LoopExhausted(attempt, broke)
            THEN slept \o <<Event("print_failed", ticker_i, attempt, "", 0)>>
            ELSE slept
    IN  /\ trace' = trace \o printed
        /\ ticker_i' = IF done THEN ticker_i + 1 ELSE ticker_i
        /\ attempt' = IF done THEN 0 ELSE attempt + 1
        /\ f_pc' = "running"
        /\ f_exc' = "none"

\* What follows the body of one iteration of the inner loop: the next
\* attempt, or the else clause (line 154) and the next ticker.
AfterIteration(events, broke) ==
    LET done == broke \/ LoopExhausted(attempt, broke)
        printed ==
            IF LoopExhausted(attempt, broke)
            THEN events \o <<Event("print_failed", ticker_i, attempt, "", 0)>>
            ELSE events
    IN  /\ trace' = trace \o printed
        /\ ticker_i' = IF done THEN ticker_i + 1 ELSE ticker_i
        /\ attempt' = IF done THEN 0 ELSE attempt + 1
        /\ f_pc' = "running"
        /\ f_exc' = "none"

\* An exception leaves fetch_stock_data.
FetchRaise(events, exc) ==
    /\ trace' = trace \o events
    /\ f_pc' = "raised"
    /\ f_exc' = exc
    /\ UNCHANGED <<ticker_i, attempt>>

InLoop == f_pc = "running" /\ ticker_i <= Len(tickers)

\* Lines 142-146: the provider returns a non-empty frame.
AttemptData ==
    /\ InLoop
    /\ \E data \in Frames :
        /\ data_dict' = StoreData(data_dict, tickers[ticker_i], data)
        /\ AfterIteration(<<Event("call", ticker_i, attempt, data, 0)>>, TRUE)
    /\ UNCHANGED <<tickers, bvars, avars, gvars>>

\* Lines 142-148: the provider returns an empty frame.
AttemptEmpty ==
    /\ InLoop
    /\ AfterIteration(<<Event("call", ticker_i, attempt, "empty", 0),
                        Event("print_empty", ticker_i, attempt, "", 0)>>,
                      FALSE)
    /\ UNCHANGED <<tickers, data_dict, bvars, avars, gvars>>

\* The delay of line 152
Backoff(att) == Pow2(att)

\* Lines 142-143 raise, then lines 149-152.  Matching the except clause
\* evaluates yfinance.exceptions.YFException, and line 152 evaluates
\* time.sleep: a name that is not bound raises NameError.
AttemptRaise ==
    /\ InLoop
    /\ \E exc \in ProviderExceptions :
        LET call == Event("call", ticker_i, attempt, "raise", 0)
            msg  == Event("print_attempt", ticker_i, attempt, "", 0)
        IN  IF "yfinance" \notin GlobalNames
            THEN FetchRaise(<<call>>, "NameError")
            ELSE IF exc # "YFException"
            THEN FetchRaise(<<call>>, exc)
            ELSE IF attempt < 2
            THEN IF "time" \notin GlobalNames
                 THEN FetchRaise(<<call, msg>>, "NameError")
                 ELSE AfterIteration(
                          <<call, msg,
                            Event("sleep", ticker_i, attempt, "", Backoff(attempt))>>,
                          FALSE)
            ELSE AfterIteration(<<call, msg>>, FALSE)
    /\ UNCHANGED <<tickers, data_dict, bvars, avars, gvars>>

\* Line 155
FetchReturn ==
    /\ f_pc = "running"
    /\ ticker_i > Len(tickers)
    /\ f_pc' = "returned"
    /\ UNCHANGED <<tickers, ticker_i, attempt, data_dict, f_exc, trace, bvars, avars, gvars>>

(***************************************************************************)
(* Floating-point values.  A float is NaN or an exact fraction n/d, d > 0, *)
(* in lowest terms; every comparison with NaN is false, and NaN            *)
(* propagates through arithmetic, as in IEEE 754.                          *)
(***************************************************************************)
RECURSIVE Gcd(_, _)
Gcd(a, b) == IF b = 0 THEN a ELSE Gcd(b, a % b)

Abs(x) == IF x < 0 THEN -x ELSE x

NaN == [nan |-> TRUE, n |-> 0, d |-> 1]

\* The fraction n/d (d # 0) in lowest terms with a positive denominator.
Frac(n, d) ==
    LET g == Gcd(Abs(n), Abs(d))
        s == IF d < 0 THEN -1 ELSE 1
    IN  [nan |-> FALSE, n |-> s * (n \div g), d |-> s * (d \div g)]

FNum(k) == [nan |-> FALSE, n |-> k, d |-> 1]

FAdd(a, b) ==
    IF a.nan \/ b.nan THEN NaN ELSE Frac(a.n * b.d + b.n * a.d, a.d * b.d)

FSub(a, b) ==
    IF a.nan \/ b.nan THEN NaN ELSE Frac(a.n * b.d - b.n * a.d, a.d * b.d)

FMul(a, b) ==
    IF a.nan \/ b.nan THEN NaN ELSE Frac(a.n * b.n, a.d * b.d)

\* a / b.  Line 108 lets no divisor that is <= 0 reach line 112; 0/0 is NaN.
FDiv(a, b) ==
    IF a.nan \/ b.nan \/ b.n = 0 THEN NaN ELSE Frac(a.n * b.d, a.d * b.n)

\* a <= b
FLe(a, b) == ~a.nan /\ ~b.nan /\ a.n * b.d <= b.n * a.d

\* a > b
FGt(a, b) == ~a.nan /\ ~b.nan /\ a.n * b.d > b.n * a.d

(***************************************************************************)
(* backtest_investment                                                     *)
(***************************************************************************)

\* An element of the list of amounts: a number (int or float), or an
\* object of another type.
Num(v) == [ty |-> "num", v |-> v]
NonNumber == [ty |-> "str", v |-> 0]
Amounts == {Num(-50), Num(0), Num(100), Num(200), NonNumber}

\* Closes the provider may report.
Closes == {0, 10, 20}

Point(ts, close) == [ts |-> ts, close |-> close]

Min(S) == CHOOSE x \in S : \A y \in S : x <= y

RECURSIVE SeriesOf(_, _)
\* The series with the timestamps T, in chronological order, closes c.
SeriesOf(T, c) ==
    IF T = {} THEN <<>>
    ELSE LET t == Min(T)
         IN  <<Point(t, c[t])>> \o SeriesOf(T \ {t}, c)

\* yf.download('^GSPC', start, end) of line 92: at most MaxSeries daily
\* points with strictly increasing timestamps in [start, end), possibly none.
Downloads(start, end) ==
    UNION { {SeriesOf(T, c) : c \in [T -> Closes]} :
            T \in {U \in SUBSET (start .. end - 1) : Cardinality(U) <= MaxSeries} }

\* datetime.now() - timedelta(days=365), line 91
StartDate(end_date) == end_date - YearLen

\* pd.date_range(start, periods, freq='MS'), line 95: the first `periods`
\* month starts at or after start.
DateRange(start, periods) ==
    LET first == ((start + MonthLen - 1) \div MonthLen) * MonthLen
    IN  [k \in 1 .. periods |-> first + (k - 1) * MonthLen]

\* The test of line 100 with >= in the place of >.
IsPositiveNumber_AllowZero(x) == x.ty = "num" /\ x.v >= 0

\* The test of one amount at line 100
IsPositiveNumber(x) == x.ty = "num" /\ x.v > 0

\* all(... for x in variable_amounts), line 100
AllPositive(amounts) ==
    \A k \in 1 .. Len(amounts) : IsPositiveNumber(amounts[k])

\* A lookup that takes the first point at or after date instead.
Asof_NextPoint(series, date) ==
    LET at == {k \in 1 .. Len(series) : series[k].ts >= date}
    IN  IF at = {} THEN NaN
        ELSE FNum(series[CHOOSE k \in at : \A j \in at : k <= j].close)

\* sp500['Close'].asof(date), line 107: the close of the last point at or
\* before date, NaN when there is none.
Asof(series, date) ==
    LET at == {k \in 1 .. Len(series) : series[k].ts <= date}
    IN  IF at = {} THEN NaN
        ELSE FNum(series[CHOOSE k \in at : \A j \in at : j <= k].close)

\* The test of line 108
InvalidPrice(price) == FLe(price, FNum(0))

\* sp500['Close'].iloc[-1], line 115
LastClose(series) == FNum(series[Len(series)].close)

\* Lines 90-92
BtDownload ==
    /\ b_pc = "entry"
    /\ sp500' \in Downloads(StartDate(now), now)
    /\ requests' = requests + 1
    /\ b_pc' = "downloaded"
    /\ UNCHANGED <<variable_amounts, now, months, investment_dates, period_i,
                   portfolio, total_invested, total_shares, b_exc, warnings,
                   fvars, avars, gvars>>

\* No truncation to the length of the series.
Truncate_Never(n, series) == n

\* Lines 102-104
Truncate(n, series) == IF n > Len(series) THEN Len(series) ELSE n

\* Lines 94-104
BtValidate ==
    /\ b_pc = "downloaded"
    /\ LET n == Len(variable_amounts)
           m == Truncate(n, sp500)
       IN  /\ portfolio' = <<>>
           /\ total_invested' = 0
           /\ total_shares' = FNum(0)
           /\ IF ~AllPositive(variable_amounts)
              THEN /\ b_pc' = "raised"
                   /\ b_exc' = "ValueError"
                   /\ months' = n
                   /\ investment_dates' = DateRange(StartDate(now), n)
              ELSE /\ b_pc' = "loop"
                   /\ b_exc' = "none"
                   /\ months' = m
                   /\ investment_dates' =
                          SubSeq(DateRange(StartDate(now), n), 1, m)
    /\ period_i' = 1
    /\ UNCHANGED <<variable_amounts, now, sp500, requests, warnings, fvars, avars, gvars>>

\* investment_dates[:months], line 106
LoopDates == SubSeq(investment_dates, 1, months)

\* The row with the current value marked to the price of its own date.
Row_MarkToDate(date, amount, price, shares_bought, invested, shares) ==
    LET current_value == FMul(shares, price)
    IN  [Date |-> date, Amount |-> amount, Price |-> price,
         SharesBought |-> shares_bought, TotalInvested |-> invested,
         CurrentValue |-> current_value,
         Growth |-> FSub(current_value, FNum(invested))]

\* The row appended at lines 117-125
Row(date, amount, price, shares_bought, invested, shares) ==
    LET current_value == FMul(shares, LastClose(sp500))
    IN  [Date |-> date, Amount |-> amount, Price |-> price,
         SharesBought |-> shares_bought, TotalInvested |-> invested,
         CurrentValue |-> current_value,
         Growth |-> FSub(current_value, FNum(invested))]

\* Lines 106-125: one iteration of the loop
BtPeriod ==
    /\ b_pc = "loop"
    /\ period_i <= Len(LoopDates)
    /\ LET date == LoopDates[period_i]
           price == Asof(sp500, date)
           amount == variable_amounts[period_i].v
           shares_bought == FDiv(FNum(amount), price)
       IN  IF InvalidPrice(price)
           THEN /\ warnings' = Append(warnings, date)
                /\ UNCHANGED <<portfolio, total_invested, total_shares>>
           ELSE /\ total_shares' = FAdd(total_shares, shares_bought)
                /\ total_invested' = total_invested + amount
                /\ portfolio' = Append(portfolio,
                       Row(date, amount, price, shares_bought,
                           total_invested + amount,
                           FAdd(total_shares, shares_bought)))
                /\ UNCHANGED warnings
    /\ period_i' = period_i + 1
    /\ UNCHANGED <<variable_amounts, now, b_pc, sp500, months,
                   investment_dates, b_exc, requests, fvars, avars, gvars>>

\* Lines 127-128
BtReturn ==
    /\ b_pc = "loop"
    /\ period_i > Len(LoopDates)
    /\ b_pc' = "returned"
    /\ UNCHANGED <<variable_amounts, now, sp500, months, investment_dates,
                   period_i, portfolio, total_invested, total_shares, b_exc,
                   requests, warnings, fvars, avars, gvars>>

(***************************************************************************)
(* check_price_alerts                                                      *)
(***************************************************************************)

\* Latest closes (data_dict[ticker]['Close'].iloc[-1]) and target prices.
AlertPrices == {90, 100, 110}
TargetValues == {100, 110}

\* The dictionaries data_dict may be, as the list of its items in
\* iteration (insertion) order: distinct symbols, each with a frame whose
\* latest close is a number.
PriceMappings ==
    {q \in SeqsUpTo([sym : Symbols, close : AlertPrices], Cardinality(Symbols)) :
        \A i, j \in 1 .. Len(q) : q[i].sym = q[j].sym => i = j}

\* The dictionaries target_prices may be.
TargetMappings == UNION {[D -> TargetValues] : D \in SUBSET Symbols}

\* The test of line 184 with >= in the place of >.
AlertDirection_AboveOrEqual(latest_price, target) ==
    IF latest_price >= target THEN "above"
    ELSE IF latest_price < target THEN "below"
    ELSE "none"

\* Lines 184-187: which alert, if any, a latest price raises.
AlertDirection(latest_price, target) ==
    IF latest_price > target THEN "above"
    ELSE IF latest_price < target THEN "below"
    ELSE "none"

\* The message of line 185 or 187
Alert(ticker, direction, target) ==
    [sym |-> ticker, dir |-> direction, target |-> target]

\* Lines 181-187: one iteration of the loop
AlertStep ==
    /\ a_pc = "running"
    /\ alert_i <= Len(latest)
    /\ LET ticker == latest[alert_i].sym
           latest_price == latest[alert_i].close
       IN  IF ticker \in DOMAIN target_prices
              /\ AlertDirection(latest_price, target_prices[ticker]) # "none"
           THEN alerts' = Append(alerts,
                    Alert(ticker,
                          AlertDirection(latest_price, target_prices[ticker]),
                          target_prices[ticker]))
           ELSE alerts' = alerts
    /\ alert_i' = alert_i + 1
    /\ UNCHANGED <<latest, target_prices, a_pc, fvars, bvars, gvars>>

\* Line 188
AlertReturn ==
    /\ a_pc = "running"
    /\ alert_i > Len(latest)
    /\ a_pc' = "returned"
    /\ UNCHANGED <<latest, target_prices, alert_i, alerts, fvars, bvars, gvars>>

(***************************************************************************)
(* StockTrackerApp, lines 9-82.  A text is a sequence of characters.       *)
(***************************************************************************)
\* range(1, 13), line 22, and the count tested at line 49
NumRows == 12

\* The rows of the table that the user double-clicks.
EditableRows == 2

\* The characters for which str.isdigit() is true, with their values.
Digits == {"0", "1", "5"}

DigitValue(c) == IF c = "0" THEN 0 ELSE IF c = "1" THEN 1 ELSE 5

\* The text of the value 1000 that line 23 puts in every row.
InitialAmount == <<"1", "0", "0", "0">>

\* What the user leaves in the entry before Return or FocusOut.
TypedTexts ==
    { <<>>, <<".">>, <<"-", "5">>, <<"0">>, <<"5">>, <<"5", ".", "5">>,
      <<"5", ".", ".">>, InitialAmount }

\* text.replace(ch, ""), line 41
Replace(text, ch) == SelectSeq(text, LAMBDA c : c # ch)

\* text.isdigit(), line 41: at least one character, all of them digits
IsDigit(text) == Len(text) >= 1 /\ \A k \in 1 .. Len(text) : text[k] \in Digits

\* The test of line 41
Accepted(new_value) == IsDigit(Replace(new_value, "."))

RECURSIVE IntOf(_)
\* The number written by a sequence of digits.
IntOf(ds) ==
    IF ds = <<>> THEN 0
    ELSE 10 * IntOf(SubSeq(ds, 1, Len(ds) - 1)) + DigitValue(ds[Len(ds)])

RECURSIVE Pow10(_)
Pow10(n) == IF n = 0 THEN 1 ELSE 10 * Pow10(n - 1)

\* A text without its leading minus sign.
Unsigned(text) ==
    IF Len(text) >= 1 /\ text[1] = "-" THEN Tail(text) ELSE text

Sign(text) == IF Unsigned(text) = text THEN 1 ELSE -1

\* int(text), as ttk tries it on every cell value it hands out: ok is FALSE
\* when int() raises ValueError.
IntOfText(text) ==
    IF IsDigit(Unsigned(text))
    THEN [ok |-> TRUE, val |-> FNum(Sign(text) * IntOf(Unsigned(text)))]
    ELSE [ok |-> FALSE, val |-> NaN]

\* float(text), line 48: digits with at most one point and at least one
\* digit; ok is FALSE when float() raises ValueError.
FloatOfText(text) ==
    LET u == Unsigned(text)
        points == {k \in 1 .. Len(u) : u[k] = "."}
        after == IF points = {} THEN 0 ELSE Len(u) - Min(points)
    IN  IF IsDigit(Replace(u, ".")) /\ Cardinality(points) <= 1
        THEN [ok |-> TRUE,
              val |-> Frac(Sign(text) * IntOf(Replace(u, ".")), Pow10(after))]
        ELSE [ok |-> FALSE, val |-> NaN]

\* float(self.tree.item(item)['values'][1]), line 48: ttk hands the cell out
\* as an int when int() takes its text and as the text itself otherwise.
ConvertCell(text) ==
    IF IntOfText(text).ok THEN IntOfText(text) ELSE FloatOfText(text)

\* The list comprehension of line 48 raises when one conversion does.
ConversionRaises(cells) == \E k \in 1 .. Len(cells) : ~ConvertCell(cells[k]).ok

\* The list built at line 48
ConvertedAmounts(cells) == [k \in 1 .. Len(cells) |-> ConvertCell(cells[k]).val]

\* The test of line 100 on a list of floats
AllPositiveFloats(amounts) ==
    \A k \in 1 .. Len(amounts) : FGt(amounts[k], FNum(0))

\* self has no attribute backtest_df.
NoAttribute == [exists |-> FALSE, rows |-> 0]

\* The frame that backtest_investment returns, by its number of rows.
DataFrame(n) == [exists |-> TRUE, rows |-> n]

\* The frames backtest_investment can return for a valid plan: at most
\* min(len(plan), len(series)) rows, lines 102-127.
ReturnedFrames(amounts) ==
    {DataFrame(n) : n \in 0 .. Min({Len(amounts), MaxSeries})}

\* self.backtest_df after a run that cleared it when the run failed.
AfterRun_ClearedOnError(old, outcome, df) ==
    IF outcome = "completed" THEN df ELSE NoAttribute

\* self.backtest_df after run_backtest: line 53 assigns it only when
\* backtest_investment has returned.
AfterRun(old, outcome, df) ==
    IF outcome = "completed" THEN df ELSE old

Mainloop == g_pc = "mainloop"

\* Lines 33-45 with save_edit: a double click on row item (0: below the
\* rows) in a column, and the text left in the entry.
EditCell ==
    /\ Mainloop
    /\ \E item \in 0 .. EditableRows, column \in {"#1", "#2"},
          new_value \in TypedTexts :
           LET opened == item # 0 /\ column = "#2"
               stored == opened /\ Accepted(new_value)
           IN  /\ tree' = IF stored THEN [tree EXCEPT ![item] = new_value]
                          ELSE tree
               /\ last_event' =
                      [handler |-> "edit_cell",
                       outcome |-> IF stored THEN "stored"
                                   ELSE IF opened THEN "rejected"
                                   ELSE "no entry"]
    /\ dialog' = "none"
    /\ UNCHANGED <<g_pc, backtest_df, completed_run>>
    /\ UNCHANGED <<fvars, bvars, avars>>

\* Lines 47-56
RunBacktest ==
    /\ Mainloop
    /\ \E df \in ReturnedFrames(ConvertedAmounts(tree)) :
           LET outcome ==
                   IF ConversionRaises(tree) THEN "unhandled ValueError"
                   ELSE IF Len(tree) # NumRows THEN "wrong count"
                   ELSE IF ~AllPositiveFloats(ConvertedAmounts(tree))
                        THEN "ValueError"
                   ELSE "completed"
           IN  /\ backtest_df' = AfterRun(backtest_df, outcome, df)
               /\ completed_run' = (completed_run \/ outcome = "completed")
               /\ dialog' =
                      IF outcome = "unhandled ValueError" THEN "none"
                      ELSE IF outcome = "wrong count"
                           THEN "Please enter amounts for all 12 months."
                      ELSE IF outcome = "ValueError"
                           THEN "All investment amounts must be positive numbers."
                      ELSE "Backtest completed! View results."
               /\ last_event' = [handler |-> "run_backtest", outcome |-> outcome]
    /\ UNCHANGED <<g_pc, tree>>
    /\ UNCHANGED <<fvars, bvars, avars>>

\* Lines 58-72: plotting a frame without rows raises (it has no column).
ViewResults ==
    /\ Mainloop
    /\ LET outcome == IF ~backtest_df.exists THEN "No Results"
                      ELSE IF backtest_df.rows = 0 THEN "Plot Error"
                      ELSE "plotted"
       IN  /\ dialog' = IF outcome = "No Results" THEN "Run backtest first!"
                        ELSE IF outcome = "Plot Error" THEN "Error plotting"
                        ELSE "none"
           /\ last_event' = [handler |-> "view_results", outcome |-> outcome]
    /\ UNCHANGED <<g_pc, tree, backtest_df, completed_run>>
    /\ UNCHANGED <<fvars, bvars, avars>>

\* Lines 74-82: to_excel writes the file or raises.
SaveExcel ==
    /\ Mainloop
    /\ \E written \in BOOLEAN :
           LET outcome == IF ~backtest_df.exists THEN "No Results"
                          ELSE IF written THEN "Saved"
                          ELSE "Save Error"
           IN  /\ dialog' =
                      IF outcome = "No Results" THEN "Run backtest first!"
                      ELSE IF outcome = "Saved"
                           THEN "Results saved to backtest_results.xlsx!"
                      ELSE "Error saving"
               /\ last_event' = [handler |-> "save_excel", outcome |-> outcome]
    /\ UNCHANGED <<g_pc, tree, backtest_df, completed_run>>
    /\ UNCHANGED <<fvars, bvars, avars>>

\* The Exit button, line 29: root.quit ends the main loop.
Quit ==
    /\ Mainloop
    /\ g_pc' = "closed"
    /\ dialog' = "none"
    /\ last_event' = [handler |-> "quit", outcome |-> "closed"]
    /\ UNCHANGED <<tree, backtest_df, completed_run>>
    /\ UNCHANGED <<fvars, bvars, avars>>

(***************************************************************************)
(* Specifications                                                          *)
(***************************************************************************)
FetchIdle ==
    /\ tickers = <<>>
    /\ f_pc = "idle"
    /\ ticker_i = 1
    /\ attempt = 0
    /\ data_dict = EmptyDict
    /\ f_exc = "none"
    /\ trace = <<>>

BacktestIdle ==
    /\ variable_amounts = <<>>
    /\ now = YearLen
    /\ b_pc = "idle"
    /\ sp500 = <<>>
    /\ months = 0
    /\ investment_dates = <<>>
    /\ period_i = 1
    /\ portfolio = <<>>
    /\ total_invested = 0
    /\ total_shares = FNum(0)
    /\ b_exc = "none"
    /\ requests = 0
    /\ warnings = <<>>

AlertsIdle ==
    /\ latest = <<>>
    /\ target_prices = EmptyDict
    /\ a_pc = "idle"
    /\ alert_i = 1
    /\ alerts = <<>>

GuiIdle ==
    /\ g_pc = "idle"
    /\ tree = <<>>
    /\ backtest_df = NoAttribute
    /\ dialog = "none"
    /\ last_event = [handler |-> "none", outcome |-> "none"]
    /\ completed_run = FALSE

\* A call fetch_stock_data(tickers): line 138
InitFetch ==
    /\ tickers \in SeqsUpTo(Symbols, MaxTickers)
    /\ f_pc = "running"
    /\ ticker_i = 1
    /\ attempt = 0
    /\ data_dict = EmptyDict
    /\ f_exc = "none"
    /\ trace = <<>>
    /\ BacktestIdle
    /\ AlertsIdle
    /\ GuiIdle

\* A call backtest_investment(variable_amounts)
InitBacktest ==
    /\ variable_amounts \in SeqsUpTo(Amounts, MaxPlan)
    /\ now \in {YearLen, YearLen + 1}
    /\ b_pc = "entry"
    /\ sp500 = <<>>
    /\ months = 0
    /\ investment_dates = <<>>
    /\ period_i = 1
    /\ portfolio = <<>>
    /\ total_invested = 0
    /\ total_shares = FNum(0)
    /\ b_exc = "none"
    /\ requests = 0
    /\ warnings = <<>>
    /\ FetchIdle
    /\ AlertsIdle
    /\ GuiIdle

\* A call check_price_alerts(data_dict, target_prices): line 180
InitAlerts ==
    /\ latest \in PriceMappings
    /\ target_prices \in TargetMappings
    /\ a_pc = "running"
    /\ alert_i = 1
    /\ alerts = <<>>
    /\ FetchIdle
    /\ BacktestIdle
    /\ GuiIdle

\* StockTrackerApp(): lines 10-31, the window with its 12 rows of 1000
InitGui ==
    /\ g_pc = "mainloop"
    /\ tree = [month \in 1 .. NumRows |-> InitialAmount]
    /\ backtest_df = NoAttribute
    /\ dialog = "none"
    /\ last_event = [handler |-> "none", outcome |-> "none"]
    /\ completed_run = FALSE
    /\ FetchIdle
    /\ BacktestIdle
    /\ AlertsIdle

NextFetch ==
    \/ AttemptData
    \/ AttemptEmpty
    \/ AttemptRaise
    \/ FetchReturn

NextBacktest ==
    \/ BtDownload
    \/ BtValidate
    \/ BtPeriod
    \/ BtReturn

NextAlerts ==
    \/ AlertStep
    \/ AlertReturn

NextGui ==
    \/ EditCell
    \/ RunBacktest
    \/ ViewResults
    \/ SaveExcel
    \/ Quit

SpecGui == InitGui /\ [][NextGui]_vars

SpecAlerts == InitAlerts /\ [][NextAlerts]_vars

SpecFetch == InitFetch /\ [][NextFetch]_vars

SpecBacktest == InitBacktest /\ [][NextBacktest]_vars

Init == InitFetch \/ InitBacktest \/ InitAlerts \/ InitGui

Next == NextFetch \/ NextBacktest \/ NextAlerts \/ NextGui

Spec == Init /\ [][Next]_vars

(***************************************************************************)
(* What a call of fetch_stock_data did, read from its trace.               *)
(***************************************************************************)
Positions == 1 .. Len(tickers)

FetchEnded == f_pc \in {"returned", "raised"}

\* The provider calls made for position p of tickers, in order.
CallsAt(p) ==
    LET IsCallAt(e) == e.ev = "call" /\ e.pos = p
    IN  SelectSeq(trace, IsCallAt)

\* The delays slept while position p was being fetched, in order.
SleepsAt(p) ==
    LET IsSleepAt(e) == e.ev = "sleep" /\ e.pos = p
        slept == SelectSeq(trace, IsSleepAt)
    IN  [k \in 1 .. Len(slept) |-> slept[k].delay]

\* The number of "Failed to fetch data ... after 3 attempts" lines printed
\* for position p.
FailedRecordsAt(p) ==
    LET IsFailedAt(e) == e.ev = "print_failed" /\ e.pos = p
    IN  Len(SelectSeq(trace, IsFailedAt))

SucceededAt(p) == \E k \in 1 .. Len(CallsAt(p)) : CallsAt(p)[k].res \in Frames

\* Every attempt made for position p failed, and one was made.
FailedAllAt(p) == Len(CallsAt(p)) >= 1 /\ ~SucceededAt(p)

\* The places in the trace of the successful calls for symbol s.
SuccessesOf(s) ==
    {k \in 1 .. Len(trace) :
        /\ trace[k].ev = "call"
        /\ tickers[trace[k].pos] = s
        /\ trace[k].res \in Frames}

Max(S) == CHOOSE x \in S : \A y \in S : y <= x

RECURSIVE SumOver(_, _)
\* The sum of f[k] for k in S.
SumOver(S, f) ==
    IF S = {} THEN 0
    ELSE LET k == Min(S) IN f[k] + SumOver(S \ {k}, f)

(***************************************************************************)
(* C1 (as claimed): a symbol that fails all of its attempts, whether the   *)
(* provider returned empty data or raised, never prevents the next symbol  *)
(* from being attempted, and the call itself does not abort.               *)
(***************************************************************************)
C1_Isolation ==
    FetchEnded =>
        /\ f_pc = "returned"
        /\ \A p \in Positions :
               (FailedAllAt(p) /\ p < Len(tickers)) => Len(CallsAt(p + 1)) >= 1

(***************************************************************************)
(* C2 (as claimed): an attempt that raises is one failed attempt like an   *)
(* empty one: the exception does not leave fetch_stock_data, and the same  *)
(* symbol is attempted again when fewer than 3 attempts have been made.    *)
(***************************************************************************)
C2_RaiseIsRetried ==
    \A k \in 1 .. Len(trace) :
        (trace[k].ev = "call" /\ trace[k].res = "raise") =>
            /\ f_pc # "raised"
            /\ f_exc = "none"
            /\ (trace[k].att < MaxAttempts - 1 /\ ~FetchEnded) =>
                   \/ (ticker_i = trace[k].pos /\ attempt = trace[k].att + 1)
                   \/ \E j \in k + 1 .. Len(trace) :
                          /\ trace[j].ev = "call"
                          /\ trace[j].pos = trace[k].pos
                          /\ trace[j].att = trace[k].att + 1

(***************************************************************************)
(* C3 (as claimed): a symbol whose first k < 3 attempts return empty data  *)
(* and whose next attempt succeeds ends up in the result, after exactly k  *)
(* failed attempts with the delays 2^0 .. 2^(k-1) slept between them.      *)
(***************************************************************************)
C3_BackoffBetweenAttempts ==
    \A p \in Positions :
        LET calls == CallsAt(p)
            k == Len(calls) - 1
        IN  ( /\ Len(calls) >= 1
              /\ calls[Len(calls)].res \in Frames
              /\ \A j \in 1 .. k : calls[j].res = "empty" ) =>
                /\ tickers[p] \in DOMAIN data_dict
                /\ k < MaxAttempts
                /\ SleepsAt(p) = [j \in 1 .. k |-> Backoff(j - 1)]

(***************************************************************************)
(* C4 (as claimed): in one call every symbol of the list is attempted at   *)
(* least once and at most 3 times, and never again after an attempt of it  *)
(* returned data.                                                          *)
(***************************************************************************)
C4_RetryCeiling ==
    \A p \in Positions :
        LET calls == CallsAt(p)
        IN  /\ Len(calls) <= MaxAttempts
            /\ \A j \in 1 .. Len(calls) - 1 : calls[j].res \notin Frames
            /\ FetchEnded => Len(calls) >= 1

(***************************************************************************)
(* C5 (as claimed), for a list of distinct symbols: a symbol is a key of   *)
(* the result iff one of its attempts returned data, which is the value    *)
(* stored; a symbol whose 3 attempts all failed is absent and has exactly  *)
(* one "failed after 3 attempts" record, a symbol that succeeded has none. *)
(***************************************************************************)
C5_PartialMapping ==
    (\A p, q \in Positions : tickers[p] = tickers[q] => p = q) =>
        \A p \in Positions :
            LET s == tickers[p]
            IN  /\ s \in DOMAIN data_dict <=> SucceededAt(p)
                /\ s \in DOMAIN data_dict =>
                       \E k \in SuccessesOf(s) : data_dict[s] = trace[k].res
                /\ (Len(CallsAt(p)) = MaxAttempts /\ ~SucceededAt(p)) =>
                       (s \notin DOMAIN data_dict /\ FailedRecordsAt(p) = 1)
                /\ SucceededAt(p) => FailedRecordsAt(p) = 0

(***************************************************************************)
(* What a call of backtest_investment did.                                 *)
(***************************************************************************)
BacktestEnded == b_pc \in {"returned", "raised"}

\* The periods the loop of line 106 has gone through.
PeriodsDone == IF b_pc \in {"loop", "returned"} THEN 1 .. period_i - 1 ELSE {}

\* The rows of the ledger appended for the target date of period k.
RowsOf(k) == {r \in 1 .. Len(portfolio) : portfolio[r].Date = LoopDates[k]}

\* The as-of price of period k is NotAvailable or <= 0.
NoValidPrice(k) ==
    LET price == Asof(sp500, LoopDates[k])
    IN  price.nan \/ FLe(price, FNum(0))

\* Some amount of the plan is a number that is zero or negative.
HasNonPositive(amounts) ==
    \E k \in 1 .. Len(amounts) : amounts[k].ty = "num" /\ amounts[k].v <= 0

RECURSIVE CumulativeShares(_)
\* The cumulative share count after row r of the ledger.
CumulativeShares(r) ==
    IF r = 0 THEN FNum(0)
    ELSE FAdd(CumulativeShares(r - 1), portfolio[r].SharesBought)

(***************************************************************************)
(* C6 (as claimed): a period whose as-of price is NotAvailable or <= 0     *)
(* appends no ledger row and leaves total_invested unchanged, so that      *)
(* every row of the ledger has a price > 0 that is a close of the          *)
(* reference series, and total_invested counts the other periods only.     *)
(***************************************************************************)
C6_InvalidPeriodsSkipped ==
    /\ \A k \in PeriodsDone : NoValidPrice(k) => RowsOf(k) = {}
    /\ \A r \in 1 .. Len(portfolio) :
           /\ FGt(portfolio[r].Price, FNum(0))
           /\ \E j \in 1 .. Len(sp500) :
                  portfolio[r].Price = FNum(sp500[j].close)
    /\ total_invested =
           LET valid == {k \in PeriodsDone : ~NoValidPrice(k)}
           IN  SumOver(valid, [k \in valid |-> variable_amounts[k].v])

(***************************************************************************)
(* C7 (as claimed): when the downloaded reference series has no price      *)
(* point, a call with a valid plan fails (InsufficientData) and does not   *)
(* return a ledger.                                                        *)
(***************************************************************************)
C7_EmptySeriesFails ==
    ( /\ BacktestEnded
      /\ Len(variable_amounts) >= 1
      /\ AllPositive(variable_amounts)
      /\ Len(sp500) = 0 ) =>
        (b_pc = "raised" /\ b_exc = "InsufficientData")

(***************************************************************************)
(* C8 (as claimed): a call whose plan holds an invalid amount fails before *)
(* any request is made to the market-data provider.                        *)
(***************************************************************************)
C8_ValidationBeforeDownload ==
    (b_pc = "raised" /\ ~AllPositive(variable_amounts)) => requests = 0

(***************************************************************************)
(* C9: if an amount of the plan is zero or negative, wherever it stands    *)
(* and whatever the reference series is, the call never reaches the loop   *)
(* nor returns, no ledger row is ever produced, and the error it ends      *)
(* with is the ValueError of line 101.                                     *)
(***************************************************************************)
C9_InvalidPlanRejected ==
    HasNonPositive(variable_amounts) =>
        /\ b_pc \notin {"loop", "returned"}
        /\ portfolio = <<>>
        /\ total_invested = 0
        /\ b_pc = "raised" => b_exc = "ValueError"
        /\ (b_pc = "downloaded") => ENABLED BtValidate

\* A call failed on a plan whose bad amount is not the first one, with a
\* reference series that has price points.
C9_Witness ==
    /\ b_pc = "raised"
    /\ b_exc = "ValueError"
    /\ Len(variable_amounts) >= 2
    /\ IsPositiveNumber(variable_amounts[1])
    /\ HasNonPositive(variable_amounts)
    /\ Len(sp500) >= 1
    /\ portfolio = <<>>

(***************************************************************************)
(* C10 (as claimed): for a valid plan and a non-empty reference series,    *)
(* 'Total Invested' and the cumulative share count are non-decreasing      *)
(* from each ledger row to the next, and 'Total Invested' of the last row  *)
(* is the sum of the amounts of the processed (non-skipped) periods.       *)
(***************************************************************************)
C10_MonotonicAccumulation ==
    (AllPositive(variable_amounts) /\ Len(sp500) >= 1) =>
        /\ \A r \in 1 .. Len(portfolio) - 1 :
               /\ portfolio[r].TotalInvested <= portfolio[r + 1].TotalInvested
               /\ FLe(CumulativeShares(r), CumulativeShares(r + 1))
        /\ Len(portfolio) >= 1 =>
               portfolio[Len(portfolio)].TotalInvested =
                   LET done == {k \in PeriodsDone : RowsOf(k) # {}}
                   IN  SumOver(done, [k \in done |-> variable_amounts[k].v])

(***************************************************************************)
(* C11: every ledger row satisfies shares bought * price = amount,         *)
(* Current Value = cumulative shares * the close of the last point of the  *)
(* reference series, Growth = Current Value - Total Invested; and for the  *)
(* plan [100, 100, 100] with the closes 10, 20, 10 in force on the three   *)
(* target dates the returned ledger has shares bought 10, 5, 10, Total     *)
(* Invested 100, 200, 300, cumulative shares 10, 15, 25, Current Value     *)
(* 100, 150, 250 and a final Growth of -50.                                *)
(***************************************************************************)
\* The plan and the reference series of the scenario: point k of the
\* series is the one in force on target date k.
C11_Scenario ==
    /\ variable_amounts = <<Num(100), Num(100), Num(100)>>
    /\ Len(sp500) = 3
    /\ <<sp500[1].close, sp500[2].close, sp500[3].close>> = <<10, 20, 10>>
    /\ LET target == DateRange(StartDate(now), 3)
       IN  \A k \in 1 .. 3 :
               /\ sp500[k].ts <= target[k]
               /\ k < 3 => sp500[k + 1].ts > target[k]

C11_LedgerArithmetic ==
    /\ \A r \in 1 .. Len(portfolio) :
           LET e == portfolio[r]
           IN  /\ IF e.Price.nan THEN e.SharesBought.nan
                  ELSE FMul(e.SharesBought, e.Price) = FNum(e.Amount)
               /\ e.CurrentValue =
                      FMul(CumulativeShares(r), FNum(sp500[Len(sp500)].close))
               /\ e.Growth = FSub(e.CurrentValue, FNum(e.TotalInvested))
    /\ (C11_Scenario /\ b_pc = "returned") =>
           /\ Len(portfolio) = 3
           /\ [r \in 1 .. 3 |-> portfolio[r].SharesBought] =
                  <<FNum(10), FNum(5), FNum(10)>>
           /\ [r \in 1 .. 3 |-> portfolio[r].TotalInvested] = <<100, 200, 300>>
           /\ [r \in 1 .. 3 |-> CumulativeShares(r)] =
                  <<FNum(10), FNum(15), FNum(25)>>
           /\ [r \in 1 .. 3 |-> portfolio[r].CurrentValue] =
                  <<FNum(100), FNum(150), FNum(250)>>
           /\ portfolio[3].Growth = FNum(-50)

\* The scenario has been run to its end.
C11_Witness == C11_Scenario /\ b_pc = "returned" /\ Len(portfolio) = 3

(***************************************************************************)
(* C12: when check_price_alerts returns, a symbol present in both mappings *)
(* has exactly one alert, 'above', if its latest close > its target,       *)
(* exactly one, 'below', if it is < its target, and none if they are       *)
(* equal; a symbol present in one mapping only has no alert; the call      *)
(* raises no error, and at every point the number of alerts is at most the *)
(* number of symbols common to both mappings.                              *)
(***************************************************************************)
\* The latest close of symbol s, a key of data_dict.
LatestOf(s) == latest[CHOOSE i \in 1 .. Len(latest) : latest[i].sym = s].close

PricedSymbols == {latest[i].sym : i \in 1 .. Len(latest)}

AlertsFor(s, direction) ==
    Cardinality({i \in 1 .. Len(alerts) :
                    alerts[i].sym = s /\ alerts[i].dir = direction})

C12_AlertEvaluation ==
    /\ a_pc \in {"idle", "running", "returned"}
    /\ Len(alerts) <= Cardinality(PricedSymbols \cap DOMAIN target_prices)
    /\ a_pc = "returned" =>
           \A s \in Symbols :
               IF s \in PricedSymbols /\ s \in DOMAIN target_prices
               THEN /\ LatestOf(s) > target_prices[s] =>
                           AlertsFor(s, "above") = 1 /\ AlertsFor(s, "below") = 0
                    /\ LatestOf(s) < target_prices[s] =>
                           AlertsFor(s, "below") = 1 /\ AlertsFor(s, "above") = 0
                    /\ LatestOf(s) = target_prices[s] =>
                           AlertsFor(s, "above") = 0 /\ AlertsFor(s, "below") = 0
                    /\ \A i \in 1 .. Len(alerts) :
                           alerts[i].sym = s => alerts[i].target = target_prices[s]
               ELSE \A i \in 1 .. Len(alerts) : alerts[i].sym # s

\* A call returned with one symbol priced at its target (no alert), the
\* other one above its target (one alert).
C12_Witness ==
    /\ a_pc = "returned"
    /\ Len(latest) = 2
    /\ DOMAIN target_prices = Symbols
    /\ LatestOf(latest[1].sym) = target_prices[latest[1].sym]
    /\ LatestOf(latest[2].sym) > target_prices[latest[2].sym]
    /\ Len(alerts) = 1
    /\ alerts[1].dir = "above"

\* A call returned without an alert for symbols that are in one mapping only.
C12_WitnessOneSided ==
    /\ a_pc = "returned"
    /\ Len(latest) = 1
    /\ Cardinality(DOMAIN target_prices) = 1
    /\ latest[1].sym \notin DOMAIN target_prices
    /\ alerts = <<>>

(***************************************************************************)
(* C14: in fetch_stock_data every sleep follows a failed attempt that is   *)
(* not the 3rd one of its symbol, and the next provider call after it is   *)
(* for the same symbol: no sleep follows a successful attempt or a 3rd     *)
(* attempt, and no sleep lies between the last attempt of a symbol and the *)
(* first attempt of the next one.                                          *)
(***************************************************************************)
\* The places of the provider calls in the trace.
CallPlaces == {k \in 1 .. Len(trace) : trace[k].ev = "call"}

\* No sleep lies between the places j < k of the trace.
NoSleepBetween(j, k) == \A i \in j + 1 .. k - 1 : trace[i].ev # "sleep"

C14_NoWastedDelay ==
    /\ \A j \in CallPlaces :
           (trace[j].res \in Frames \/ trace[j].att = MaxAttempts - 1) =>
               /\ NoSleepBetween(j, Len(trace) + 1)
                  \/ \E k \in CallPlaces : k > j /\ NoSleepBetween(j, k)
               /\ \A k \in CallPlaces :
                      (k > j /\ trace[k].pos = trace[j].pos + 1
                             /\ trace[k].att = 0) => NoSleepBetween(j, k)
    /\ \A i \in 1 .. Len(trace) :
           trace[i].ev = "sleep" =>
               \E j \in CallPlaces :
                   /\ j < i
                   /\ \A k \in CallPlaces : ~(j < k /\ k < i)
                   /\ trace[j].pos = trace[i].pos
                   /\ trace[j].res \notin Frames
                   /\ trace[j].att < MaxAttempts - 1

\* The call returned after the first symbol failed its 3 attempts and the
\* second one succeeded at once.
C14_Witness ==
    /\ f_pc = "returned"
    /\ Len(tickers) = 2
    /\ Len(CallsAt(1)) = MaxAttempts
    /\ ~SucceededAt(1)
    /\ Len(CallsAt(2)) = 1
    /\ SucceededAt(2)

(***************************************************************************)
(* C19 (as claimed): for a list of N symbols and a provider whose calls    *)
(* return or raise, fetch_stock_data goes on until it returns, after at    *)
(* most 3*N provider calls and at most 2 sleeps per symbol (at most        *)
(* 2^0 + 2^1 of delay).                                                    *)
(***************************************************************************)
C19_FetchTerminates ==
    /\ FetchEnded => f_pc = "returned"
    /\ f_pc = "running" => ENABLED NextFetch
    /\ Cardinality(CallPlaces) <= MaxAttempts * Len(tickers)
    /\ \A p \in Positions :
           /\ Len(SleepsAt(p)) <= 2
           /\ SumOver(1 .. Len(SleepsAt(p)), SleepsAt(p)) <= Pow2(0) + Pow2(1)

(***************************************************************************)
(* C15: a call with a valid plan never fails because the plan is longer    *)
(* than the reference series: it processes the first min(len(plan),        *)
(* len(series)) periods and no other; period k uses amount k of the plan   *)
(* and target date k, also after a skipped period, and leaves one ledger   *)
(* row or one warning; so the ledger never has more than min(len(plan),    *)
(* len(series)) rows.                                                      *)
(***************************************************************************)
C15_Truncation ==
    LET n == Len(variable_amounts)
        m == IF n > Len(sp500) THEN Len(sp500) ELSE n
        target == DateRange(StartDate(now), n)
        Warned(k) == {w \in 1 .. Len(warnings) : warnings[w] = target[k]}
        RowsAt(k) == {r \in 1 .. Len(portfolio) : portfolio[r].Date = target[k]}
    IN  /\ (AllPositive(variable_amounts) /\ b_pc # "idle") => b_pc # "raised"
        /\ b_pc \in {"loop", "returned"} =>
               /\ Len(portfolio) <= m
               /\ period_i - 1 <= m
               /\ b_pc = "returned" => period_i - 1 = m
               /\ \A k \in 1 .. n :
                      IF k < period_i
                      THEN /\ Cardinality(RowsAt(k)) + Cardinality(Warned(k)) = 1
                           /\ \A r \in RowsAt(k) :
                                  portfolio[r].Amount = variable_amounts[k].v
                      ELSE RowsAt(k) = {} /\ Warned(k) = {}
               /\ \A r \in 1 .. Len(portfolio) - 1 :
                      portfolio[r].Date < portfolio[r + 1].Date

\* A plan of 3 amounts was run against a series of 2 points: the first
\* period was skipped and the second one used the second amount.
C15_Witness ==
    /\ b_pc = "returned"
    /\ Len(variable_amounts) = 3
    /\ Len(sp500) = 2
    /\ Len(warnings) = 1
    /\ Len(portfolio) = 1
    /\ warnings[1] < portfolio[1].Date
    /\ portfolio[1].Amount = variable_amounts[2].v
    /\ variable_amounts[2] # variable_amounts[1]

(***************************************************************************)
(* C16: the price of every ledger row is the close of the most recent      *)
(* point of the reference series at or before the row's target date, and   *)
(* NaN (not available) when the series has no such point; a skipped        *)
(* period is one whose most recent point at or before its date has a       *)
(* close <= 0; a later point is never used.                                *)
(***************************************************************************)
\* Point j is the most recent point of the series at or before date.
MostRecentAt(j, date) ==
    /\ sp500[j].ts <= date
    /\ \A i \in 1 .. Len(sp500) : sp500[i].ts <= date => sp500[i].ts <= sp500[j].ts

C16_AsOfPrice ==
    /\ \A r \in 1 .. Len(portfolio) :
           LET e == portfolio[r]
           IN  IF \A i \in 1 .. Len(sp500) : sp500[i].ts > e.Date
               THEN e.Price.nan
               ELSE \E j \in 1 .. Len(sp500) :
                        MostRecentAt(j, e.Date) /\ e.Price = FNum(sp500[j].close)
    /\ \A w \in 1 .. Len(warnings) :
           \E j \in 1 .. Len(sp500) :
               MostRecentAt(j, warnings[w]) /\ sp500[j].close <= 0

\* A row whose target date lies strictly between two points with different
\* closes has the close of the earlier one.
C16_Witness ==
    \E r \in 1 .. Len(portfolio) : \E j \in 1 .. Len(sp500) - 1 :
        /\ sp500[j].ts < portfolio[r].Date
        /\ portfolio[r].Date < sp500[j + 1].ts
        /\ sp500[j].close # sp500[j + 1].close
        /\ portfolio[r].Price = FNum(sp500[j].close)

\* A row whose target date precedes every point has no price.
C16_WitnessNotAvailable ==
    \E r \in 1 .. Len(portfolio) :
        /\ Len(sp500) >= 1
        /\ sp500[1].ts > portfolio[r].Date
        /\ portfolio[r].Price.nan

(***************************************************************************)
(* C17: self.backtest_df exists only after a run_backtest that completed   *)
(* without error; a run_backtest that fails with ValueError (raised by the *)
(* conversion of line 48 or by backtest_investment) leaves it as it was;   *)
(* view_results and save_excel never change it and, when it does not       *)
(* exist, only show the "Run backtest first!" warning.                     *)
(***************************************************************************)
FailedRun(e) ==
    e.handler = "run_backtest" /\ e.outcome \in {"ValueError", "unhandled ValueError"}

ResultButton(e) == e.handler \in {"view_results", "save_excel"}

C17_HandlerFrame ==
    /\ FailedRun(last_event') => backtest_df' = backtest_df
    /\ ResultButton(last_event') =>
           /\ backtest_df' = backtest_df
           /\ ~backtest_df.exists =>
                  /\ dialog' = "Run backtest first!"
                  /\ last_event'.outcome = "No Results"
                  /\ UNCHANGED <<tree, completed_run, g_pc>>

C17_StoredResult ==
    /\ [](backtest_df.exists => completed_run)
    /\ [][C17_HandlerFrame]_vars

\* A stored result has survived a run that failed with ValueError.
C17_Witness ==
    /\ backtest_df.exists
    /\ last_event = [handler |-> "run_backtest", outcome |-> "ValueError"]

\* The buttons were pressed with no stored result.
C17_WitnessNoResult ==
    /\ ~backtest_df.exists
    /\ ResultButton(last_event)
    /\ dialog = "Run backtest first!"

(***************************************************************************)
(* C18: every amount that edit_cell has stored in the table converts to a  *)
(* number at line 48, so that run_backtest ends with a stored result or    *)
(* with an error dialog and never with an unhandled exception.             *)
(***************************************************************************)
C18_AcceptedAmountsConvert ==
    /\ Mainloop => \A k \in 1 .. Len(tree) : ConvertCell(tree[k]).ok
    /\ last_event.handler = "run_backtest" =>
           /\ last_event.outcome \in {"completed", "ValueError", "wrong count"}
           /\ dialog # "none"

\* run_backtest has ended with the ValueError of line 48.
C18_UnhandledReached ==
    last_event = [handler |-> "run_backtest", outcome |-> "unhandled ValueError"]

====
